---- MODULE Spec2Model ----
(***************************************************************************)
(* Model of src/js/main.js (Exodus landing page script): the Navigation,   *)
(* WordRotation and HeroImage modules, the initApp bootstrap, and the      *)
(* browser timers (setInterval / setTimeout) they schedule.                *)
(*                                                                         *)
(* Two specifications are given:                                           *)
(*   Spec     - the page as wired: initApp once, clicks, timer callbacks,  *)
(*              the beforeunload handler.                                  *)
(*   SpecWord - the WordRotation module driven through its public          *)
(*              interface {start, stop} in any order, with its timers.     *)
(***************************************************************************)
EXTENDS Integers, Sequences, FiniteSets, TLC

\* ------------------------------------------------------------------ CONFIG
WORD_ROTATION_INTERVAL == 3000
WORD_FADE_DURATION == 300

HERO_WORDS ==
  << "WhatsApp Bot", "Telegram Bot", "Discord Bot", "Game Server", "AI Agent",
     "Cron Job", "Database", "Web App/API", "Webhook Receiver",
     "Automation Script" >>

HERO_IMAGES ==
  << "images/hero-1.png", "images/hero-2.png", "images/hero-3.png",
     "images/hero-4.png" >>

\* ------------------------------------------------------------------ bounds
\* recurring timers ever created by start()
MaxStarts == 2
\* firings of the recurring callback after one start()
MaxTicks == 2
\* amounts of time that may pass in one step (clipped to the next deadline)
Delays == {150, 2700}
\* start/stop calls remembered in callLog
MaxLog == 3

\* ------------------------------------------------------------- environment
\* The elements the script looks up by id, and the values the page may ship.
Elements == {"navCta", "sideMenu", "rotatingWord", "heroImg"}
\* getAttribute of an attribute that is not set
AttrAbsent == "<absent>"
\* text / src the page ships with, before the script writes anything
PageDefault == "<page default>"
\* intervalId = null (timer handles are positive integers)
Null == 0

VARIABLES
  present,        \* ids of the elements that exist in the document
  isMenuOpen,     \* Navigation closure state
  sideMenuActive, \* "active" in #sideMenu.classList
  navCtaActive,   \* "active" in #navCta.classList
  ariaExpanded,   \* #navCta aria-expanded attribute
  ctaBound,       \* click listener on #navCta is registered
  linksBound,     \* click listeners on the side menu anchors are registered
  currentIndex,   \* WordRotation closure state (0-based)
  intervalId,     \* WordRotation closure state (Null or a timer handle)
  timers,         \* active recurring timers: handle -> ms until next firing
  fades,          \* pending one-shot fade callbacks, in scheduling order
  nextTimerId,    \* next handle setInterval returns
  textContent,    \* #rotatingWord.textContent
  opacity,        \* #rotatingWord.style.opacity
  transition,     \* #rotatingWord.style.transition
  heroSrc,        \* #heroImg.src
  preloaded,      \* image paths handed to detached Image objects
  appState,       \* "loading" before initApp ran, "ready" after
  lastOp,         \* history: the operation that ran last
  startIdx,       \* history: index picked by the last successful start()
  ticks,          \* history: recurring-callback firings since that start()
  everMulti,      \* history: two recurring timers were active at once
  toggleHist,     \* history: menu state before each of the last two toggles
  callLog         \* history: start/stop calls since construction

navVars == <<isMenuOpen, sideMenuActive, navCtaActive, ariaExpanded>>
bindVars == <<ctaBound, linksBound>>
wordVars ==
  <<currentIndex, intervalId, timers, fades, nextTimerId, textContent,
    opacity, transition>>
wordHist == <<startIdx, ticks, everMulti>>
heroVars == <<heroSrc, preloaded>>
vars ==
  <<present, isMenuOpen, sideMenuActive, navCtaActive, ariaExpanded, ctaBound,
    linksBound, currentIndex, intervalId, timers, fades, nextTimerId,
    textContent, opacity, transition, heroSrc, preloaded, appState, lastOp,
    startIdx, ticks, everMulti, toggleHist, callLog>>

\* ---------------------------------------------------------------- utilities
\* Math.floor(Math.random() * max): any integer of [0, max)
getRandomInt(max) == 0 .. (max - 1)

\* array[getRandomInt(array.length)]
getRandomItem(array) == {array[i + 1] : i \in getRandomInt(Len(array))}

\* document.querySelector(selector) found an element
Found(id) == id \in present

\* String(boolean), as setAttribute stores it
ToAttr(b) == IF b THEN "true" ELSE "false"

\* the last two entries of a sequence
LastTwo(s) == IF Len(s) <= 2 THEN s ELSE SubSeq(s, Len(s) - 1, Len(s))

MenuState ==
  [open |-> isMenuOpen, side |-> sideMenuActive, cta |-> navCtaActive,
   aria |-> ariaExpanded]

\* ---------------------------------------------------------------- Navigation
\* mutant: the flag is flipped before the elements are checked
toggleMenu_flipFirst ==
  IF ~Found("sideMenu") \/ ~Found("navCta")
    THEN /\ isMenuOpen' = ~isMenuOpen
         /\ UNCHANGED <<sideMenuActive, navCtaActive, ariaExpanded, toggleHist>>
    ELSE /\ isMenuOpen' = ~isMenuOpen
         /\ sideMenuActive' = isMenuOpen'
         /\ navCtaActive' = isMenuOpen'
         /\ ariaExpanded' = ToAttr(isMenuOpen')
         /\ toggleHist' = LastTwo(Append(toggleHist, MenuState))

\* mutant: aria-expanded is written from the flag's value before the flip
toggleMenu_staleAria ==
  IF ~Found("sideMenu") \/ ~Found("navCta")
    THEN UNCHANGED <<navVars, toggleHist>>
    ELSE /\ isMenuOpen' = ~isMenuOpen
         /\ sideMenuActive' = isMenuOpen'
         /\ navCtaActive' = isMenuOpen'
         /\ ariaExpanded' = ToAttr(isMenuOpen)
         /\ toggleHist' = LastTwo(Append(toggleHist, MenuState))

toggleMenu ==
  IF ~Found("sideMenu") \/ ~Found("navCta")
    THEN UNCHANGED <<navVars, toggleHist>>
    ELSE /\ isMenuOpen' = ~isMenuOpen
         /\ sideMenuActive' = isMenuOpen'
         /\ navCtaActive' = isMenuOpen'
         /\ ariaExpanded' = ToAttr(isMenuOpen')
         /\ toggleHist' = LastTwo(Append(toggleHist, MenuState))

\* mutant: the anchor listener toggles without looking at isMenuOpen
linkClickHandler_noCheck == toggleMenu

\* the listener closeMenuOnLinkClick registers on every anchor
linkClickHandler ==
  IF isMenuOpen THEN toggleMenu ELSE UNCHANGED <<navVars, toggleHist>>

closeMenuOnLinkClick ==
  IF ~Found("sideMenu") THEN UNCHANGED linksBound ELSE linksBound' = TRUE

NavigationInit ==
  IF ~Found("navCta")
    THEN UNCHANGED bindVars
    ELSE ctaBound' = TRUE /\ closeMenuOnLinkClick

\* -------------------------------------------------------------- WordRotation
\* mutant: the fade is scheduled with the rotation interval as its delay
updateWord_wrongDelay(newWord) ==
  /\ opacity' = "0"
  /\ fades' = Append(fades, [word |-> newWord,
                              remaining |-> WORD_ROTATION_INTERVAL])

updateWord(newWord) ==
  /\ opacity' = "0"
  /\ fades' = Append(fades, [word |-> newWord, remaining |-> WORD_FADE_DURATION])

\* the callback updateWord hands to setTimeout
fadeCallback(newWord) ==
  /\ textContent' = newWord
  /\ opacity' = "1"

\* mutant: the index wraps one position early
rotateNext_wrapEarly ==
  /\ currentIndex' = (currentIndex + 1) % (Len(HERO_WORDS) - 1)
  /\ updateWord(HERO_WORDS[currentIndex' + 1])

rotateNext ==
  /\ currentIndex' = (currentIndex + 1) % Len(HERO_WORDS)
  /\ updateWord(HERO_WORDS[currentIndex' + 1])

\* mutant: no check of the element; the random pick is stored, then the
\* write to the missing element fails
start_noGuard ==
  \E r \in getRandomInt(Len(HERO_WORDS)) :
    /\ currentIndex' = r
    /\ IF ~Found("rotatingWord")
         THEN UNCHANGED <<intervalId, timers, fades, nextTimerId, textContent,
                          opacity, transition, wordHist>>
         ELSE /\ textContent' = HERO_WORDS[r + 1]
              /\ transition' = "opacity 300ms ease"
              /\ intervalId' = nextTimerId
              /\ timers' = [i \in DOMAIN timers \cup {nextTimerId} |->
                              IF i = nextTimerId THEN WORD_ROTATION_INTERVAL
                                                 ELSE timers[i]]
              /\ nextTimerId' = nextTimerId + 1
              /\ startIdx' = r
              /\ ticks' = 0
              /\ everMulti' = (everMulti \/ DOMAIN timers # {})
              /\ UNCHANGED <<opacity, fades>>

start ==
  IF ~Found("rotatingWord")
    THEN UNCHANGED <<wordVars, wordHist>>
    ELSE \E r \in getRandomInt(Len(HERO_WORDS)) :
           /\ currentIndex' = r
           /\ textContent' = HERO_WORDS[r + 1]
           /\ transition' = "opacity 300ms ease"
           /\ intervalId' = nextTimerId
           /\ timers' = [i \in DOMAIN timers \cup {nextTimerId} |->
                           IF i = nextTimerId THEN WORD_ROTATION_INTERVAL
                                              ELSE timers[i]]
           /\ nextTimerId' = nextTimerId + 1
           /\ startIdx' = r
           /\ ticks' = 0
           /\ everMulti' = (everMulti \/ DOMAIN timers # {})
           /\ UNCHANGED <<opacity, fades>>

\* mutant: the handle is forgotten without clearInterval
stop_noClear ==
  IF intervalId # Null
    THEN /\ intervalId' = Null
         /\ UNCHANGED <<currentIndex, timers, fades, nextTimerId, textContent,
                        opacity, transition, wordHist>>
    ELSE UNCHANGED <<wordVars, wordHist>>

\* mutant: stop also cancels the pending fade callbacks
stop_cancelFades ==
  IF intervalId # Null
    THEN /\ timers' = [i \in DOMAIN timers \ {intervalId} |-> timers[i]]
         /\ intervalId' = Null
         /\ fades' = <<>>
         /\ UNCHANGED <<currentIndex, nextTimerId, textContent, opacity,
                        transition, wordHist>>
    ELSE UNCHANGED <<wordVars, wordHist>>

stop ==
  IF intervalId # Null
    THEN /\ timers' = [i \in DOMAIN timers \ {intervalId} |-> timers[i]]
         /\ intervalId' = Null
         /\ UNCHANGED <<currentIndex, fades, nextTimerId, textContent, opacity,
                        transition, wordHist>>
    ELSE UNCHANGED <<wordVars, wordHist>>

\* ----------------------------------------------------------------- HeroImage
setRandomImage ==
  IF ~Found("heroImg")
    THEN UNCHANGED heroSrc
    ELSE \E img \in getRandomItem(HERO_IMAGES) : heroSrc' = img

HeroImageInit == setRandomImage

preloadImages == preloaded' = {HERO_IMAGES[i] : i \in 1 .. Len(HERO_IMAGES)}

\* ------------------------------------------------------------------- timers
Min(a, b) == IF a <= b THEN a ELSE b

Deadlines ==
  {timers[i] : i \in DOMAIN timers} \cup
  {fades[j].remaining : j \in 1 .. Len(fades)}

NextDeadline == CHOOSE d \in Deadlines : \A e \in Deadlines : d <= e

\* no start() beyond the bound on handles
CanStart == Found("rotatingWord") => nextTimerId <= MaxStarts

\* ------------------------------------------------------------------ actions
\* initApp, run once when the document is ready
InitApp ==
  /\ appState = "loading"
  /\ CanStart
  /\ NavigationInit
  /\ start
  /\ HeroImageInit
  /\ preloadImages
  /\ appState' = "ready"
  /\ lastOp' = "initApp"
  /\ callLog' = Append(callLog, "start")
  /\ UNCHANGED <<present, navVars, toggleHist>>

\* a click on #navCta
ClickNavCta ==
  /\ ctaBound
  /\ toggleMenu
  /\ lastOp' = "clickNavCta"
  /\ UNCHANGED <<present, bindVars, wordVars, wordHist, heroVars, appState,
                 callLog>>

\* a click on an anchor inside #sideMenu
ClickLink ==
  /\ linksBound
  /\ linkClickHandler
  /\ lastOp' = "clickLink"
  /\ UNCHANGED <<present, bindVars, wordVars, wordHist, heroVars, appState,
                 callLog>>

\* the beforeunload listener
BeforeUnload ==
  /\ appState = "ready"
  /\ stop
  /\ lastOp' = "stop"
  /\ callLog' = IF Len(callLog) < MaxLog THEN Append(callLog, "stop") ELSE <<"more">>
  /\ UNCHANGED <<present, navVars, bindVars, heroVars, appState, toggleHist>>

\* WordRotation.start() called through the module's interface
Start ==
  /\ CanStart
  /\ start
  /\ lastOp' = "start"
  /\ callLog' = IF Len(callLog) < MaxLog THEN Append(callLog, "start") ELSE <<"more">>
  /\ UNCHANGED <<present, navVars, bindVars, heroVars, appState, toggleHist>>

\* WordRotation.stop() called through the module's interface
Stop ==
  /\ stop
  /\ lastOp' = "stop"
  /\ callLog' = IF Len(callLog) < MaxLog THEN Append(callLog, "stop") ELSE <<"more">>
  /\ UNCHANGED <<present, navVars, bindVars, heroVars, appState, toggleHist>>

\* a recurring timer that is due runs its callback and is re-armed
IntervalFire ==
  \E id \in DOMAIN timers :
    /\ timers[id] = 0
    /\ ticks < MaxTicks
    /\ rotateNext
    /\ timers' = [timers EXCEPT ![id] = WORD_ROTATION_INTERVAL]
    /\ ticks' = ticks + 1
    /\ lastOp' = "tick"
    /\ UNCHANGED <<present, navVars, bindVars, intervalId, nextTimerId,
                   textContent, transition, heroVars, appState, startIdx,
                   everMulti, toggleHist, callLog>>

\* the oldest pending fade callback is due and runs
FadeFire ==
  /\ fades # <<>>
  /\ Head(fades).remaining = 0
  /\ fadeCallback(Head(fades).word)
  /\ fades' = Tail(fades)
  /\ lastOp' = "fade"
  /\ UNCHANGED <<present, navVars, bindVars, currentIndex, intervalId, timers,
                 nextTimerId, transition, heroVars, appState, wordHist,
                 toggleHist, callLog>>

\* time passes, never beyond the next deadline
Advance ==
  \E d \in Delays :
    /\ Deadlines # {}
    /\ NextDeadline > 0
    /\ LET e == Min(d, NextDeadline) IN
         /\ timers' = [i \in DOMAIN timers |-> timers[i] - e]
         /\ fades' = [j \in 1 .. Len(fades) |->
                        [fades[j] EXCEPT !.remaining = @ - e]]
    /\ lastOp' = "advance"
    /\ UNCHANGED <<present, navVars, bindVars, currentIndex, intervalId,
                   nextTimerId, textContent, opacity, transition, heroVars,
                   appState, wordHist, toggleHist, callLog>>

\* ----------------------------------------------------------- specifications
InitCommon ==
  /\ isMenuOpen = FALSE
  /\ ctaBound = FALSE
  /\ linksBound = FALSE
  /\ currentIndex = 0
  /\ intervalId = Null
  /\ timers = <<>>
  /\ fades = <<>>
  /\ nextTimerId = 1
  /\ textContent = PageDefault
  /\ opacity = ""
  /\ transition = ""
  /\ heroSrc = PageDefault
  /\ preloaded = {}
  /\ appState = "loading"
  /\ lastOp = "load"
  /\ startIdx = 0
  /\ ticks = 0
  /\ everMulti = FALSE
  /\ toggleHist = <<>>
  /\ callLog = <<>>

\* the page: any subset of the elements, any shipped class / attribute values
Init ==
  /\ InitCommon
  /\ present \in SUBSET Elements
  /\ sideMenuActive \in (IF "sideMenu" \in present THEN BOOLEAN ELSE {FALSE})
  /\ navCtaActive \in (IF "navCta" \in present THEN BOOLEAN ELSE {FALSE})
  /\ ariaExpanded \in
       (IF "navCta" \in present THEN {AttrAbsent, "false", "true"}
                                ELSE {AttrAbsent})

Next ==
  \/ InitApp
  \/ ClickNavCta
  \/ ClickLink
  \/ BeforeUnload
  \/ IntervalFire
  \/ FadeFire
  \/ Advance

Spec == Init /\ [][Next]_vars

\* the WordRotation module alone: the rotating-word element present or not
InitWord ==
  /\ InitCommon
  /\ present \in {{}, {"rotatingWord"}}
  /\ sideMenuActive = FALSE
  /\ navCtaActive = FALSE
  /\ ariaExpanded = AttrAbsent

NextWord ==
  \/ Start
  \/ Stop
  \/ IntervalFire
  \/ FadeFire
  \/ Advance

SpecWord == InitWord /\ [][NextWord]_vars

\* ------------------------------------------------------------------- claims
N == Len(HERO_WORDS)
WordAt(i) == HERO_WORDS[i + 1]
ActiveTimers == DOMAIN timers
Started == nextTimerId > 1
InSync(m) == m.side = m.open /\ m.cta = m.open /\ m.aria = ToAttr(m.open)

\* C1: after k firings of the recurring callback since the start() that picked
\* index i, currentIndex = (i + k) mod N, and the word handed to updateWord on
\* that firing is HERO_WORDS[(i + k) mod N].
C1_RotationIsCyclic ==
  /\ [](Started => currentIndex = (startIdx + ticks) % N)
  /\ [][IntervalFire =>
          /\ ticks' = ticks + 1
          /\ fades'[Len(fades')].word = WordAt((startIdx + ticks') % N)]_vars

\* C1 witness: two firings after a start at the last index wrapped around.
C1_Witness == startIdx = N - 1 /\ ticks = 2 /\ currentIndex = 1 /\ lastOp = "tick"

\* C2 (as claimed): at most one recurring timer is active, it is active
\* exactly when intervalId is non-null, and right after stop() none is active.
C2_SingleTimer ==
  /\ Cardinality(ActiveTimers) <= 1
  /\ (ActiveTimers # {}) <=> (intervalId # Null)
  /\ (lastOp = "stop" => ActiveTimers = {})

\* C3: stop() in the stopped state changes nothing, and stop(); start();
\* stop() from the initial state ends with intervalId null and no active
\* recurring timer.
C3_StopIdempotent ==
  /\ [][Stop /\ intervalId = Null => UNCHANGED <<wordVars, wordHist>>]_vars
  /\ [](callLog = <<"stop", "start", "stop">> =>
          intervalId = Null /\ ActiveTimers = {})

\* C3 witness: stop, start (which created a timer), stop has run.
C3_Witness ==
  /\ callLog = <<"stop", "start", "stop">>
  /\ Found("rotatingWord")
  /\ nextTimerId = 2
  /\ lastOp = "stop"

\* C4 (as claimed): two consecutive toggleMenu() calls return isMenuOpen, both
\* 'active' classes and aria-expanded to their values before the first call.
C4_ToggleTwiceRestoresAll == Len(toggleHist) = 2 => MenuState = toggleHist[1]

\* C4 (amended): two consecutive toggleMenu() calls return isMenuOpen to its
\* value before the first call and leave both classes and aria-expanded at the
\* values that isMenuOpen dictates; the classes and the attribute are back at
\* their earlier values whenever they agreed with isMenuOpen before the first
\* call.
C4_ToggleTwiceRestoresSynced ==
  Len(toggleHist) = 2 =>
    /\ isMenuOpen = toggleHist[1].open
    /\ InSync(MenuState)
    /\ (InSync(toggleHist[1]) => MenuState = toggleHist[1])

\* C4 witness: an open, consistent menu was toggled twice.
C4_Witness ==
  /\ Len(toggleHist) = 2
  /\ toggleHist[1].open
  /\ InSync(toggleHist[1])
  /\ ~toggleHist[2].open
  /\ isMenuOpen

\* C5: start() with #rotatingWord absent changes neither intervalId nor
\* currentIndex nor anything else of WordRotation, creates no timer, and the
\* module stays stopped.
C5_StartWithoutElement ==
  /\ [][Start /\ ~Found("rotatingWord") => UNCHANGED <<wordVars, wordHist>>]_vars
  /\ [](~Found("rotatingWord") =>
          intervalId = Null /\ ActiveTimers = {} /\ currentIndex = 0)

\* C5 witness: start() has been called on a page without the element.
C5_Witness == ~Found("rotatingWord") /\ lastOp = "start" /\ callLog # <<>>

C7_StopKeepsFades ==
  /\ [][Stop => fades' = fades]_vars
  /\ [][FadeFire /\ intervalId = Null =>
          textContent' = Head(fades).word /\ opacity' = "1"]_vars

\* C7 witness: every timer was stopped after the last firing, and the fade of
\* that firing has since written its word.
C7_Witness ==
  /\ lastOp = "fade"
  /\ intervalId = Null
  /\ ActiveTimers = {}
  /\ ticks >= 1
  /\ opacity = "1"
  /\ textContent = WordAt(currentIndex)
  /\ textContent # WordAt(startIdx)

\* C8 (as claimed): right after a click on a side-menu anchor the menu is
\* closed: isMenuOpen false and no 'active' class on #sideMenu or #navCta.
C8_LinkClickClosesMenu ==
  lastOp = "clickLink" => ~isMenuOpen /\ ~sideMenuActive /\ ~navCtaActive

\* C8 (amended): right after a click on a side-menu anchor isMenuOpen is
\* false; a click on an open menu removes both 'active' classes and sets
\* aria-expanded to "false"; a click on a closed menu changes neither
\* isMenuOpen nor any class or attribute.
C8_LinkClickClosesOpenMenu ==
  /\ [](lastOp = "clickLink" => ~isMenuOpen)
  /\ [][ClickLink =>
          IF isMenuOpen
            THEN /\ ~isMenuOpen'
                 /\ ~sideMenuActive'
                 /\ ~navCtaActive'
                 /\ ariaExpanded' = "false"
            ELSE UNCHANGED navVars]_vars

\* C8 witness: an anchor was clicked after the menu had been opened.
C8_Witness ==
  /\ lastOp = "clickLink"
  /\ toggleHist # <<>>
  /\ toggleHist[Len(toggleHist)].open
  /\ ~isMenuOpen
  /\ ~sideMenuActive
  /\ ~navCtaActive
  /\ ariaExpanded = "false"

\* C9: after initApp on a page with none of the four elements no listener is
\* bound, no timer exists, and isMenuOpen, currentIndex, intervalId, the word
\* and the image source have their defaults; toggleMenu with #sideMenu or
\* #navCta missing changes nothing.
C9_MissingElementsNoEffect ==
  /\ [](appState = "ready" /\ present = {} =>
          /\ ~ctaBound
          /\ ~linksBound
          /\ ActiveTimers = {}
          /\ fades = <<>>
          /\ intervalId = Null
          /\ currentIndex = 0
          /\ ~isMenuOpen
          /\ textContent = PageDefault
          /\ opacity = ""
          /\ heroSrc = PageDefault)
  /\ [][ClickNavCta /\ (~Found("sideMenu") \/ ~Found("navCta")) =>
          UNCHANGED navVars]_vars
  /\ [](~Found("sideMenu") \/ ~Found("navCta") => ~isMenuOpen)

\* C9 witness: initApp has run on a page without any of the elements.
C9_Witness == appState = "ready" /\ present = {} /\ lastOp = "initApp"

\* C10 (as claimed): once start() has succeeded and no fade callback is
\* pending, the text is HERO_WORDS[currentIndex] (here even with never more
\* than one recurring timer active).
C10_WordMatchesCursor ==
  (Started /\ ~everMulti /\ fades = <<>>) => textContent = WordAt(currentIndex)

====
